---- MODULE Spec2Model ----
(***************************************************************************)
(* A model of the explore-openapi-snapshot GitHub action:                  *)
(*   src/src/api.ts      sendSchemaToApi  (one POST to the snapshot API)   *)
(*   src/src/index.ts    run              (inputs -> auth -> name ->       *)
(*                                         permanent -> submit -> report)  *)
(*   src/src/comment.ts  createOrUpdateComment / formatComment             *)
(*   src/src/oidc.ts     getOidcToken                                      *)
(*                                                                         *)
(* Strings are sequences of chunks (a chunk is an atomic piece of text),   *)
(* so that concatenation, startsWith, includes and replace are computed.   *)
(* An optional value is <<>> (undefined) or <<v>>.                         *)
(***************************************************************************)
EXTENDS Integers, Sequences, FiniteSets, TLC

\* ------------------------------------------------------------------ bounds

\* Longest ref string (in chunks) a non-pull-request context carries.
MaxRefLen == 3

\* Comments on the thread before the first invocation.
MaxInitComments == 2

\* createOrUpdateComment invocations (reruns of the workflow) on the thread.
MaxInvocations == 2

\* Comments in one page of listComments. The call passes neither per_page nor
\* page, so it gets the first page only; the REST default of 30 is scaled
\* down here so that threads longer than a page are reached.
PageSize == 2

\* ----------------------------------------------------------------- strings

None == <<>>

Some(v) == <<v>>

IsSome(o) == Len(o) > 0

Val(o) == o[1]

\* JavaScript truthiness of an optional string: undefined and "" are falsy.
TruthyStr(o) == IsSome(o) /\ Len(Val(o)) > 0

\* JavaScript truthiness of an optional number: undefined and 0 are falsy.
TruthyNum(o) == IsSome(o) /\ Val(o) # 0

\* String.prototype.startsWith
StartsWith(s, p) == Len(s) >= Len(p) /\ SubSeq(s, 1, Len(p)) = p

\* The offsets (0-based) at which pat occurs in s.
Occurrences(s, pat) ==
    {i \in 0..Len(s) : i + Len(pat) <= Len(s) /\ SubSeq(s, i + 1, i + Len(pat)) = pat}

\* String.prototype.includes
Includes(s, pat) == Occurrences(s, pat) # {}

\* String.prototype.replace with a string pattern: the first occurrence only.
Replace(s, pat, rep) ==
    IF ~Includes(s, pat) THEN s
    ELSE LET i == CHOOSE k \in Occurrences(s, pat) : \A j \in Occurrences(s, pat) : k <= j
         IN SubSeq(s, 1, i) \o rep \o SubSeq(s, i + Len(pat) + 1, Len(s))

LowerChunk(c) ==
    CASE c = "TRUE" -> "true"
      [] c = "True" -> "true"
      [] c = "FALSE" -> "false"
      [] OTHER -> c

\* String.prototype.toLowerCase
ToLowerCase(s) == [i \in 1..Len(s) |-> LowerChunk(s[i])]

DigitChunk(d) ==
    CASE d = 0 -> "0" [] d = 1 -> "1" [] d = 2 -> "2" [] d = 3 -> "3" [] d = 4 -> "4"
      [] d = 5 -> "5" [] d = 6 -> "6" [] d = 7 -> "7" [] d = 8 -> "8" [] d = 9 -> "9"

RECURSIVE Decimal(_)
\* The decimal digits of a natural number, as `${n}` renders it.
Decimal(n) == IF n < 10 THEN <<DigitChunk(n)>> ELSE Decimal(n \div 10) \o <<DigitChunk(n % 10)>>

\* `${n}` for an optional number: undefined renders as the text "undefined".
NumberTemplate(o) == IF IsSome(o) THEN Decimal(Val(o)) ELSE <<"undefined">>

\* ---------------------------------------------------------------- variables

VARIABLES
    \* sendSchemaToApi (src/src/api.ts)
    apiPc,        \* "idle" | "fetching" | "returned" | "threw"
    apiArgs,      \* the params object of the call in progress
    fetchCalls,   \* every fetch() issued, in order
    apiOutcome,   \* what the call resolved or rejected with
    coreErrors,   \* core.error() lines
    \* run (src/src/index.ts)
    runPc,        \* "init" | "awaitOidc" | "awaitRead" | "awaitApi" | "awaitSummary" | "done"
    inputs,       \* core.getInput values ("" when not given)
    context,      \* github.context: payload.pull_request and ref
    idTokenCalls, \* the audiences core.getIDToken was asked for
    idTokenResults, \* what core.getIDToken answered, call by call
    oidcToken,    \* run's local oidcToken
    sendCalls,    \* the params of every sendSchemaToApi call run made
    failedMsgs,   \* core.setFailed messages
    outputs,      \* core.setOutput values
    summaries,    \* core.summary writes
    completed,    \* "Action completed successfully!" was logged
    \* createOrUpdateComment (src/src/comment.ts) on one pull-request thread
    thread,       \* the thread's comments, oldest first: [id, body]
    thread0,      \* the thread as it stood before the first invocation
    nextId,       \* the id the next created comment gets
    inv,          \* per invocation: pc, the rendered body, the target, its octokit calls
    begun,        \* invocations started so far
    \* formatComment (src/src/comment.ts) called on its own
    fmtArgs,      \* the response, the project and the github.context it reads
    fmtBody       \* the string it returned

apiVars == <<apiPc, apiArgs, fetchCalls, apiOutcome, coreErrors>>

runVars == <<runPc, inputs, context, idTokenCalls, idTokenResults, oidcToken, sendCalls, failedMsgs,
             outputs, summaries, completed>>

threadVars == <<thread, thread0, nextId, inv, begun>>

fmtVars == <<fmtArgs, fmtBody>>

vars == <<apiVars, runVars, threadVars, fmtVars>>

\* ------------------------------------------------------ sendSchemaToApi

\* Mutant: only the repository is looked at.
MutForkContextComplete(fc) == IsSome(fc) /\ TruthyStr(Val(fc).targetRepository)

\* forkContext?.targetRepository && forkContext?.targetPullRequest && forkContext?.commitSha
ForkContextComplete(fc) ==
    /\ IsSome(fc)
    /\ TruthyStr(Val(fc).targetRepository)
    /\ TruthyNum(Val(fc).targetPullRequest)
    /\ TruthyStr(Val(fc).commitSha)

\* An object literal as JSON.stringify and fetch see it: a key whose value is
\* undefined (or that was never assigned) is not there.
JsonStringify(obj) ==
    [k \in {f \in DOMAIN obj : IsSome(obj[f])} |-> Val(obj[k])]

\* Mutant: a complete fork context wins over the identity token.
MutAuthMode(p) ==
    IF ForkContextComplete(p.forkContext) THEN "fork"
    ELSE IF TruthyStr(p.oidcToken) THEN "oidc"
    ELSE "none"

\* Which branch of the credential chain a call takes (api.ts 32-44).
AuthMode(p) ==
    IF TruthyStr(p.oidcToken) THEN "oidc"
    ELSE IF ForkContextComplete(p.forkContext) THEN "fork"
    ELSE "none"

\* Mutant: the fork route is never selected.
MutTargetUrl(p) == p.apiUrl

\* targetUrl: apiUrl, or `${apiUrl}-fork` in fork mode.
TargetUrl(p) == IF AuthMode(p) = "fork" THEN p.apiUrl \o <<"-fork">> ELSE p.apiUrl

\* headers: Content-Type always; Authorization as the mode assigns it.
RequestHeaders(p) ==
    [ContentType |-> Some(<<"application/json">>),
     Authorization |->
        CASE AuthMode(p) = "oidc" -> Some(<<"Bearer ">> \o Val(p.oidcToken))
          [] AuthMode(p) = "fork" ->
                Some(<<"Fork ">> \o Val(Val(p.forkContext).targetRepository))
          [] OTHER -> None]

\* body: {schema, project, snapshotName}, plus forkContext in fork mode.
RequestBody(p) ==
    [schema |-> Some(p.schema),
     project |-> Some(p.project),
     snapshotName |-> p.snapshotName,
     forkContext |-> IF AuthMode(p) = "fork" THEN p.forkContext ELSE None]

\* The url, method, headers and body sendSchemaToApi hands to fetch.
BuildRequest(p) ==
    [url |-> TargetUrl(p), method |-> "POST", headers |-> JsonStringify(RequestHeaders(p)),
     body |-> JsonStringify(RequestBody(p))]

\* Mutant: the response text is left out of the message.
MutStatusError(status, errorText) ==
    [isError |-> TRUE,
     message |-> <<"API request failed with status ">> \o Decimal(status)]

\* new Error(`API request failed with status ${response.status}: ${errorText}`)
StatusError(status, errorText) ==
    [isError |-> TRUE,
     message |-> <<"API request failed with status ">> \o Decimal(status)
                   \o <<": ">> \o errorText]

\* The catch block: core.error for an Error, then rethrow.
LogApiError(err) ==
    IF err.isError
      THEN Append(coreErrors, <<"Failed to send schema to API: ">> \o err.message)
      ELSE coreErrors

\* sendSchemaToApi up to its await of fetch: the request is built and issued.
ApiCall(p) ==
    /\ apiPc = "idle"
    /\ apiArgs' = Some(p)
    /\ fetchCalls' = Append(fetchCalls, BuildRequest(p))
    /\ apiPc' = "fetching"
    /\ UNCHANGED <<apiOutcome, coreErrors>>

\* fetch resolved with response.ok and response.json() gave data.
ApiFetchOk(data) ==
    /\ apiPc = "fetching"
    /\ apiPc' = "returned"
    /\ apiOutcome' = [kind |-> "value", data |-> Some(data), error |-> None]
    /\ UNCHANGED <<apiArgs, fetchCalls, coreErrors>>

\* fetch resolved with !response.ok: the status and text become an Error.
ApiFetchNotOk(status, errorText) ==
    /\ apiPc = "fetching"
    /\ apiPc' = "threw"
    /\ apiOutcome' = [kind |-> "error", data |-> None,
                      error |-> Some(StatusError(status, errorText))]
    /\ coreErrors' = LogApiError(StatusError(status, errorText))
    /\ UNCHANGED <<apiArgs, fetchCalls>>

\* Mutant: the rejection is wrapped in a new Error.
MutApiFetchReject(err) ==
    /\ apiPc = "fetching"
    /\ apiPc' = "threw"
    /\ apiOutcome' = [kind |-> "error", data |-> None,
                      error |-> Some([isError |-> TRUE,
                                      message |-> <<"Request failed: ">> \o err.message])]
    /\ coreErrors' = LogApiError(err)
    /\ UNCHANGED <<apiArgs, fetchCalls>>

\* fetch (or response.json()) rejected with err.
ApiFetchReject(err) ==
    /\ apiPc = "fetching"
    /\ apiPc' = "threw"
    /\ apiOutcome' = [kind |-> "error", data |-> None, error |-> Some(err)]
    /\ coreErrors' = LogApiError(err)
    /\ UNCHANGED <<apiArgs, fetchCalls>>

\* ------------------------------------------------ the environment's answers

ApiUrl == <<"https://editor-api.explore-openapi.dev/public/v1/snapshot">>

Schema == <<"{openapi: 3.0.0}">>

\* Bodies the snapshot service answers a 2xx with.
Responses ==
    [snapshot : {None, Some([id |-> <<"snap-1">>, name |-> <<"123">>])},
     sameAsBase : BOOLEAN,
     message : {None, Some(<<"note">>)},
     error : {None, Some(<<"boom">>)}]

HttpFailures == {401, 500} \X {<<"Unauthorized">>, <<>>}

TransportErrors ==
    {[isError |-> TRUE, message |-> <<"Network error">>],
     [isError |-> FALSE, message |-> <<"thrown string">>]}

ForkContexts ==
    {None} \cup
    {Some(fc) : fc \in [targetRepository : {None, Some(<<>>), Some(<<"owner/repo">>)},
                        targetPullRequest : {None, Some(0), Some(10)},
                        commitSha : {None, Some(<<>>), Some(<<"abc123def456">>)}]}

\* What a direct caller of sendSchemaToApi may pass (SendSchemaParams).
DirectArgs ==
    [apiUrl : {ApiUrl},
     schema : {Schema},
     oidcToken : {None, Some(<<>>), Some(<<"oidc-token">>)},
     project : {<<"test-project">>},
     snapshotName : {None, Some(<<"10">>)},
     forkContext : ForkContexts,
     authToken : {None, Some(<<"test-token">>)},
     permanent : {None},
     baseBranchName : {None}]

\* ------------------------------------------------------------ initial state

InitApi ==
    /\ apiPc = "idle"
    /\ apiArgs = None
    /\ fetchCalls = <<>>
    /\ apiOutcome = [kind |-> "none", data |-> None, error |-> None]
    /\ coreErrors = <<>>


\* ------------------------------------------------------------------- run

\* error instanceof Error ? error.message : fallback
ErrorMessage(err, fallback) == IF err.isError THEN err.message ELSE fallback

\* Mutant: the check for an empty token is missing.
MutGetOidcToken(r) ==
    IF r.kind = "token"
      THEN [ok |-> TRUE, token |-> r.token, error |-> None]
      ELSE [ok |-> FALSE, token |-> <<>>,
            error |-> Some([isError |-> TRUE,
                            message |-> <<"Failed to retrieve OIDC token: ">>
                                          \o ErrorMessage(r.error, <<"Unknown error">>)])]

\* getOidcToken (oidc.ts) on core.getIDToken's answer: a token, or the Error thrown.
\* r.kind is "token" (getIDToken resolved with r.token) or "reject" (it threw r.error).
GetOidcToken(r) ==
    IF r.kind = "token" /\ Len(r.token) > 0
      THEN [ok |-> TRUE, token |-> r.token, error |-> None]
      ELSE LET inner == IF r.kind = "token"
                          THEN [isError |-> TRUE,
                                message |-> <<"Failed to get OIDC token from GitHub Actions">>]
                          ELSE r.error
           IN [ok |-> FALSE, token |-> <<>>,
               error |-> Some([isError |-> TRUE,
                               message |-> <<"Failed to retrieve OIDC token: ">>
                                             \o ErrorMessage(inner, <<"Unknown error">>)])]

\* useOidc.toLowerCase() === "true"
ShouldUseOidc(inp) == ToLowerCase(inp.useOidc) = <<"true">>

\* Mutant: legacy mode does not check that a token was given.
MutAuthMethod(inp) == IF ShouldUseOidc(inp) THEN "oidc" ELSE "legacy"

\* The authentication branch run takes (index.ts 71-102): OIDC, the legacy
\* auth-token, or none (legacy mode without a token: the run is failed).
AuthMethod(inp) ==
    IF ShouldUseOidc(inp) THEN "oidc"
    ELSE IF Len(inp.authToken) = 0 THEN "none"
    ELSE "legacy"

\* Mutant: only the branch prefix is stripped, whatever the ref starts with.
MutSnapshotNameOf(inp, ctx) ==
    IF Len(inp.snapshotName) > 0 THEN inp.snapshotName
    ELSE IF IsSome(ctx.pull_request) THEN NumberTemplate(Val(ctx.pull_request).number)
    ELSE Replace(ctx.ref, <<"refs/", "heads/">>, <<>>)

\* The snapshot name run derives (index.ts 104-120).
SnapshotNameOf(inp, ctx) ==
    IF Len(inp.snapshotName) > 0 THEN inp.snapshotName
    ELSE IF IsSome(ctx.pull_request) THEN NumberTemplate(Val(ctx.pull_request).number)
    ELSE IF StartsWith(ctx.ref, <<"refs/", "heads/">>)
      THEN Replace(ctx.ref, <<"refs/", "heads/">>, <<>>)
    ELSE IF StartsWith(ctx.ref, <<"refs/", "tags/">>)
      THEN Replace(ctx.ref, <<"refs/", "tags/">>, <<>>)
    ELSE ctx.ref

\* Mutant: the permanent input is ignored.
MutPermanentOf(inp, ctx) == ~IsSome(ctx.pull_request)

\* The permanent flag run derives (index.ts 122-130).
PermanentOf(inp, ctx) ==
    IF Len(inp.permanent) > 0
      THEN ToLowerCase(inp.permanent) = <<"true">>
      ELSE ~IsSome(ctx.pull_request)

\* github.context.payload.pull_request?.base?.ref
BaseRefOf(ctx) ==
    IF IsSome(ctx.pull_request) /\ IsSome(Val(ctx.pull_request).base)
      THEN Val(Val(ctx.pull_request).base).ref
      ELSE None

\* The object run passes to sendSchemaToApi (index.ts 148-157).
SendArgs(inp, ctx, tok) ==
    [apiUrl |-> ApiUrl,
     schema |-> Schema,
     authToken |-> Some(inp.authToken),
     oidcToken |-> tok,
     project |-> inp.project,
     snapshotName |-> Some(SnapshotNameOf(inp, ctx)),
     permanent |-> Some(PermanentOf(inp, ctx)),
     baseBranchName |-> BaseRefOf(ctx),
     forkContext |-> None]

NoTokenMessage ==
    <<"No authentication token provided",
      ". This is expected for external contributor PRs as secrets are not available. ",
      "A maintainer can manually approve and re-run this workflow, or use OIDC authentication by setting 'use-oidc: true'.">>

OidcFailedMessage(err) ==
    <<"Failed to obtain OIDC token: ">> \o ErrorMessage(err, <<"Unknown error">>)
      \o <<". Make sure the workflow has '", "id-token: write", "' permission.">>

\* Mutant: the catch logs the error and does not mark the run failed.
MutRunCatch(err, errs) ==
    LET errorMessage == ErrorMessage(err, <<"Unknown error occurred">>)
    IN /\ failedMsgs' = failedMsgs
       /\ coreErrors' = Append(errs, <<"Snapshot creation failed: ">> \o errorMessage)
       /\ runPc' = "done"

\* The outer catch of run: setFailed, then core.error.
\* errs is core.error's log as the failing call left it.
RunCatch(err, errs) ==
    LET errorMessage == ErrorMessage(err, <<"Unknown error occurred">>)
    IN /\ failedMsgs' = Append(failedMsgs, <<"Action failed: ">> \o errorMessage)
       /\ coreErrors' = Append(errs, <<"Snapshot creation failed: ">> \o errorMessage)
       /\ runPc' = "done"

RequiredMissing(name) ==
    [isError |-> TRUE, message |-> <<"Input required and not supplied: ", name>>]

\* run from its start to its first await (getOidcToken or readFile), or to its
\* early return.
RunStart(inp, ctx) ==
    /\ runPc = "init"
    /\ inputs' = inp
    /\ context' = ctx
    /\ UNCHANGED <<apiPc, apiArgs, fetchCalls, apiOutcome, idTokenResults, oidcToken,
                   sendCalls, outputs, summaries, completed>>
    /\ IF Len(inp.schemaFile) = 0
         THEN RunCatch(RequiredMissing("schema-file"), coreErrors) /\ UNCHANGED idTokenCalls
       ELSE IF Len(inp.project) = 0
         THEN RunCatch(RequiredMissing("project"), coreErrors) /\ UNCHANGED idTokenCalls
       ELSE IF AuthMethod(inp) = "oidc"
         THEN /\ idTokenCalls' = Append(idTokenCalls,
                     IF Len(inp.oidcAudience) > 0 THEN inp.oidcAudience
                     ELSE <<"https://explore-openapi.dev">>)
              /\ runPc' = "awaitOidc"
              /\ UNCHANGED <<failedMsgs, coreErrors>>
       ELSE IF AuthMethod(inp) = "none"
         THEN /\ failedMsgs' = Append(failedMsgs, NoTokenMessage)
              /\ runPc' = "done"
              /\ UNCHANGED <<idTokenCalls, coreErrors>>
       ELSE /\ runPc' = "awaitRead"
            /\ UNCHANGED <<idTokenCalls, failedMsgs, coreErrors>>

\* getOidcToken settled: the token is kept, or the run is failed and returns.
RunOidcSettled(r) ==
    /\ runPc = "awaitOidc"
    /\ UNCHANGED <<apiVars, inputs, context, idTokenCalls, sendCalls, outputs,
                   summaries, completed>>
    /\ idTokenResults' = Append(idTokenResults, r)
    /\ LET got == GetOidcToken(r)
       IN IF got.ok
            THEN /\ oidcToken' = Some(got.token)
                 /\ runPc' = "awaitRead"
                 /\ UNCHANGED failedMsgs
            ELSE /\ failedMsgs' = Append(failedMsgs, OidcFailedMessage(Val(got.error)))
                 /\ runPc' = "done"
                 /\ UNCHANGED oidcToken

\* readFile and JSON.parse succeeded: sendSchemaToApi is called and awaits fetch.
RunReadOk ==
    /\ runPc = "awaitRead"
    /\ ApiCall(SendArgs(inputs, context, oidcToken))
    /\ sendCalls' = Append(sendCalls, SendArgs(inputs, context, oidcToken))
    /\ runPc' = "awaitApi"
    /\ UNCHANGED <<inputs, context, idTokenCalls, idTokenResults, oidcToken, failedMsgs, outputs,
                   summaries, completed>>

\* Mutant: the schema is submitted before the read error is handled.
MutRunReadFail(err) ==
    /\ runPc = "awaitRead"
    /\ fetchCalls' = Append(fetchCalls, BuildRequest(SendArgs(inputs, context, oidcToken)))
    /\ sendCalls' = Append(sendCalls, SendArgs(inputs, context, oidcToken))
    /\ RunCatch(err, coreErrors)
    /\ UNCHANGED <<apiPc, apiArgs, apiOutcome, inputs, context, idTokenCalls, idTokenResults,
                   oidcToken, outputs, summaries, completed>>

\* readFile rejected or JSON.parse threw.
RunReadFail(err) ==
    /\ runPc = "awaitRead"
    /\ RunCatch(err, coreErrors)
    /\ UNCHANGED <<apiPc, apiArgs, fetchCalls, apiOutcome, inputs, context, idTokenCalls, idTokenResults,
                   oidcToken, sendCalls, outputs, summaries, completed>>

\* Mutant: snapshot-url is set whatever the response holds.
MutOutputsOf(response, project) ==
    [response |-> Some(response),
     snapshotUrl |->
        Some(<<"https://explore-openapi.dev/view?project=">> \o project \o <<"&snapshot=">>
               \o (IF IsSome(response.snapshot) THEN Val(response.snapshot).name
                   ELSE <<"undefined">>))]

\* The outputs run sets from the response (index.ts 161-167).
OutputsOf(response, project) ==
    [response |-> Some(response),
     snapshotUrl |->
        IF IsSome(response.snapshot) /\ Len(Val(response.snapshot).id) > 0
           /\ Len(project) > 0
          THEN Some(<<"https://explore-openapi.dev/view?project=">> \o project
                      \o <<"&snapshot=">> \o Val(response.snapshot).name)
          ELSE None]

\* The markdown addWorkflowSummary writes (index.ts 12-56).
SummaryOf(response, project, ctx) ==
    LET pr == ctx.pull_request
        prNumber == IF IsSome(pr) THEN Val(pr).number ELSE None
        baseBranch == BaseRefOf(ctx)
        baseText == IF IsSome(baseBranch) THEN Val(baseBranch) ELSE <<"undefined">>
    IN <<"## OpenAPI Snapshot", "\n\n">>
       \o (IF IsSome(response.snapshot)
             THEN <<"Snapshot created successfully!", "\n\n", "Snapshot URL: ">>
                  \o project \o <<"&snapshot=">> \o Val(response.snapshot).name
                  \o (IF TruthyNum(prNumber) /\ TruthyStr(baseBranch)
                        THEN <<"\n\n", "Compare URL: ">> \o project \o <<"&baseSnapshot=">>
                             \o Val(baseBranch) \o <<"&featureSnapshot=">>
                             \o Decimal(Val(prNumber))
                        ELSE <<>>)
                  \o <<"\n\n", "Snapshot Details", "Name: ">> \o Val(response.snapshot).name
                  \o <<"Project: ">> \o project
                  \o (IF response.sameAsBase
                        THEN <<"\n", "No changes detected compared to ">> \o baseText
                        ELSE <<>>)
                  \o (IF TruthyStr(response.message)
                        THEN <<"\n", "Note: ">> \o Val(response.message)
                        ELSE <<>>)
           ELSE IF TruthyStr(response.error)
             THEN <<"Failed to create snapshot", "\n\n", "Error: ">> \o Val(response.error)
           ELSE <<>>)
       \o <<"\n---\n\n", "PR comment will be posted by the backend GitHub App">>

\* sendSchemaToApi resolved: outputs are set; in a pull request the summary
\* write is awaited, otherwise the run completes.
RunApiOk(data) ==
    /\ runPc = "awaitApi"
    /\ ApiFetchOk(data)
    /\ outputs' = OutputsOf(data, inputs.project)
    /\ IF IsSome(context.pull_request)
         THEN runPc' = "awaitSummary" /\ UNCHANGED completed
         ELSE runPc' = "done" /\ completed' = TRUE
    /\ UNCHANGED <<inputs, context, idTokenCalls, idTokenResults, oidcToken, sendCalls, failedMsgs,
                   summaries>>

\* sendSchemaToApi rejected after a non-2xx answer: the outer catch.
RunApiNotOk(status, errorText) ==
    /\ runPc = "awaitApi"
    /\ apiPc = "fetching"
    /\ apiPc' = "threw"
    /\ apiOutcome' = [kind |-> "error", data |-> None,
                      error |-> Some(StatusError(status, errorText))]
    /\ RunCatch(StatusError(status, errorText), LogApiError(StatusError(status, errorText)))
    /\ UNCHANGED <<apiArgs, fetchCalls, inputs, context, idTokenCalls, idTokenResults, oidcToken,
                   sendCalls, outputs, summaries, completed>>

\* Mutant: a request that fetch rejected is sent again.
MutRunApiReject(err) ==
    /\ runPc = "awaitApi"
    /\ apiPc = "fetching"
    /\ fetchCalls' = Append(fetchCalls, BuildRequest(Val(apiArgs)))
    /\ UNCHANGED <<apiPc, apiArgs, apiOutcome, coreErrors, runVars>>

\* sendSchemaToApi rejected because fetch did: the outer catch.
RunApiReject(err) ==
    /\ runPc = "awaitApi"
    /\ apiPc = "fetching"
    /\ apiPc' = "threw"
    /\ apiOutcome' = [kind |-> "error", data |-> None, error |-> Some(err)]
    /\ RunCatch(err, LogApiError(err))
    /\ UNCHANGED <<apiArgs, fetchCalls, inputs, context, idTokenCalls, idTokenResults, oidcToken,
                   sendCalls, outputs, summaries, completed>>

\* core.summary.addRaw(summary).write() resolved.
RunSummaryOk ==
    /\ runPc = "awaitSummary"
    /\ summaries' = Append(summaries,
                           SummaryOf(Val(apiOutcome.data), inputs.project, context))
    /\ completed' = TRUE
    /\ runPc' = "done"
    /\ UNCHANGED <<apiVars, inputs, context, idTokenCalls, idTokenResults, oidcToken, sendCalls,
                   failedMsgs, outputs>>

\* core.summary write rejected: the outer catch.
RunSummaryFail(err) ==
    /\ runPc = "awaitSummary"
    /\ RunCatch(err, coreErrors)
    /\ UNCHANGED <<apiPc, apiArgs, fetchCalls, apiOutcome, inputs, context, idTokenCalls, idTokenResults,
                   oidcToken, sendCalls, outputs, summaries, completed>>

\* --------------------------------------------------- createOrUpdateComment

MARKER == "<!-- openapi-snapshot-comment -->"

COMMENT_IDENTIFIER == <<MARKER>>

RECURSIVE Join(_)
\* lines.join("\n")
Join(lines) ==
    IF Len(lines) = 0 THEN <<>>
    ELSE IF Len(lines) = 1 THEN lines[1]
    ELSE lines[1] \o <<"\n">> \o Join(Tail(lines))

\* context.payload.pull_request?.number
PrNumberOf(ctx) ==
    IF IsSome(ctx.pull_request) THEN Val(ctx.pull_request).number ELSE None

\* Mutant: the heading comes before the marker.
MutHeadLines == <<<<"## :camera: OpenAPI Snapshot">>, COMMENT_IDENTIFIER, <<>>>>

\* const lines = [COMMENT_IDENTIFIER, heading, ""]
HeadLines == <<COMMENT_IDENTIFIER, <<"## :camera: OpenAPI Snapshot">>, <<>>>>

\* Mutant: the Error line is pushed whether or not there is a message.
MutErrorLines(response) ==
    <<<<>>, <<"**Error:** ">> \o (IF IsSome(response.error) THEN Val(response.error)
                                  ELSE <<"undefined">>)>>

\* if (response.error) { push "", push `**Error:** ${response.error}` }
ErrorLines(response) ==
    IF TruthyStr(response.error)
      THEN <<<<>>, <<"**Error:** ">> \o Val(response.error)>>
      ELSE <<>>

\* Mutant: the base ref is not looked up; the fallback text is always used.
MutUnchangedLines(project, ctx) ==
    <<<<":information_source: No changes detected compared to ", "base branch">>,
      <<>>,
      <<":link: **Base Branch Snapshot:** ",
        "https://explore-openapi.dev/view?project=">> \o project
        \o <<"&snapshot=", "base branch">>>>

\* The sameAsBase branch (comment.ts 71-79): the base ref, or "base branch".
UnchangedLines(project, ctx) ==
    LET baseRef == BaseRefOf(ctx)
        baseBranch == IF TruthyStr(baseRef) THEN Val(baseRef) ELSE <<"base branch">>
    IN <<<<":information_source: No changes detected compared to ">> \o baseBranch,
         <<>>,
         <<":link: **Base Branch Snapshot:** ",
           "https://explore-openapi.dev/view?project=">> \o project
           \o <<"&snapshot=">> \o baseBranch>>

\* Mutant: the compare link is pushed whenever there is a pull-request number.
MutCompareLines(project, ctx) ==
    LET prNumber == PrNumberOf(ctx)
        baseRef == BaseRefOf(ctx)
    IN IF Len(project) > 0 /\ TruthyNum(prNumber)
         THEN <<<<>>,
                <<":arrows_counterclockwise: **Compare URL:** ",
                  "https://explore-openapi.dev/compare?project=">> \o project
                  \o <<"&baseSnapshot=">>
                  \o (IF IsSome(baseRef) THEN Val(baseRef) ELSE <<"undefined">>)
                  \o <<"&featureSnapshot=">> \o Decimal(Val(prNumber))>>
         ELSE <<>>

\* if (project && prNumber && baseBranch) { push "", push the compare link }
CompareLines(project, ctx) ==
    LET prNumber == PrNumberOf(ctx)
        baseRef == BaseRefOf(ctx)
    IN IF Len(project) > 0 /\ TruthyNum(prNumber) /\ TruthyStr(baseRef)
         THEN <<<<>>,
                <<":arrows_counterclockwise: **Compare URL:** ",
                  "https://explore-openapi.dev/compare?project=">> \o project
                  \o <<"&baseSnapshot=">> \o Val(baseRef)
                  \o <<"&featureSnapshot=">> \o Decimal(Val(prNumber))>>
         ELSE <<>>

\* if (apiResponse.snapshot?.id && project) { push "", push the view link }
ViewLines(response, project) ==
    IF Len(Val(response.snapshot).id) > 0 /\ Len(project) > 0
      THEN <<<<>>,
             <<":link: **Snapshot URL:** ",
               "https://explore-openapi.dev/view?project=">> \o project
               \o <<"&snapshot=">> \o Val(response.snapshot).name>>
      ELSE <<>>

\* if (apiResponse.message) { push "", push the note }
NoteLines(response) ==
    IF TruthyStr(response.message)
      THEN <<<<>>, <<":memo: ">> \o Val(response.message)>>
      ELSE <<>>

\* formatComment (comment.ts 54-111)
FormatComment(response, project, ctx) ==
    IF ~IsSome(response.snapshot)
      THEN Join(HeadLines \o <<<<":x: Failed to create snapshot">>>> \o ErrorLines(response))
    ELSE IF response.sameAsBase
      THEN Join(HeadLines \o UnchangedLines(project, ctx) \o NoteLines(response))
    ELSE Join(HeadLines \o <<<<":white_check_mark: Successfully created snapshot!">>>>
              \o CompareLines(project, ctx)
              \o ViewLines(response, project)
              \o NoteLines(response))

\* comment.body?.includes(COMMENT_IDENTIFIER)
HasMarker(comment) == IsSome(comment.body) /\ Includes(Val(comment.body), COMMENT_IDENTIFIER)

\* What octokit.rest.issues.listComments({owner, repo, issue_number}) resolves
\* with: the first page of the thread.
ListComments(t) == SubSeq(t, 1, IF Len(t) < PageSize THEN Len(t) ELSE PageSize)

\* Mutant: the last listed comment with the marker is taken.
MutFindExisting(comments) ==
    LET hits == {k \in 1..Len(comments) : HasMarker(comments[k])}
    IN IF hits = {} THEN None
       ELSE Some(comments[CHOOSE k \in hits : \A j \in hits : k >= j])

\* comments.find(...): the first listed comment with the marker, if any.
FindExisting(comments) ==
    LET hits == {k \in 1..Len(comments) : HasMarker(comments[k])}
    IN IF hits = {} THEN None
       ELSE Some(comments[CHOOSE k \in hits : \A j \in hits : k <= j])

IdleInvocation ==
    [pc |-> "idle", body |-> <<>>, listed |-> None, target |-> None, calls |-> <<>>,
     error |-> None]

InFlight(i) == inv[i].pc \in {"listing", "updating", "creating"}

\* Mutant: only the falsy numbers are refused.
MutNoPrNumber(issue_number) == ~TruthyNum(issue_number)

\* !issue_number || issue_number <= 0
NoPrNumber(issue_number) == ~TruthyNum(issue_number) \/ Val(issue_number) <= 0

\* createOrUpdateComment up to its await of listComments, or to its throw.
CommentBegin(i, response, project) ==
    /\ ~InFlight(i)
    /\ begun < MaxInvocations
    /\ begun' = begun + 1
    /\ LET issue_number == PrNumberOf(context)
       IN IF NoPrNumber(issue_number)
            THEN inv' = [inv EXCEPT ![i] =
                            [IdleInvocation EXCEPT !.pc = "failed",
                               !.error = Some(<<"No pull request number found">>)]]
            ELSE inv' = [inv EXCEPT ![i] =
                            [IdleInvocation EXCEPT !.pc = "listing",
                               !.body = FormatComment(response, project, context),
                               !.calls = <<[op |-> "listComments",
                                            issue_number |-> Val(issue_number)]>>]]
    /\ UNCHANGED <<thread, thread0, nextId>>

\* listComments resolved: the existing comment is looked up and updateComment
\* or createComment is issued.
CommentListed(i) ==
    /\ inv[i].pc = "listing"
    /\ LET existingComment == FindExisting(ListComments(thread))
       IN IF IsSome(existingComment)
            THEN inv' = [inv EXCEPT ![i].pc = "updating",
                                    ![i].listed = Some(ListComments(thread)),
                                    ![i].target = Some(Val(existingComment).id),
                                    ![i].calls = Append(@, [op |-> "updateComment",
                                                 comment_id |-> Val(existingComment).id,
                                                 body |-> inv[i].body])]
            ELSE inv' = [inv EXCEPT ![i].pc = "creating",
                                    ![i].listed = Some(ListComments(thread)),
                                    ![i].calls = Append(@, [op |-> "createComment",
                                                 issue_number |-> Val(PrNumberOf(context)),
                                                 body |-> inv[i].body])]
    /\ UNCHANGED <<thread, thread0, nextId, begun>>

\* Mutant: the update lands on the oldest comment of the thread.
MutCommentUpdated(i) ==
    /\ inv[i].pc = "updating"
    /\ thread' = [k \in 1..Len(thread) |->
                    IF k = 1 THEN [thread[k] EXCEPT !.body = Some(inv[i].body)]
                    ELSE thread[k]]
    /\ inv' = [inv EXCEPT ![i].pc = "done"]
    /\ UNCHANGED <<thread0, nextId, begun>>

\* updateComment resolved: the comment with that id carries the new body.
CommentUpdated(i) ==
    /\ inv[i].pc = "updating"
    /\ thread' = [k \in 1..Len(thread) |->
                    IF thread[k].id = Val(inv[i].target)
                      THEN [thread[k] EXCEPT !.body = Some(inv[i].body)]
                      ELSE thread[k]]
    /\ inv' = [inv EXCEPT ![i].pc = "done"]
    /\ UNCHANGED <<thread0, nextId, begun>>

\* Mutant: createComment rewrites a marked comment when the thread has one.
MutCommentCreated(i) ==
    /\ inv[i].pc = "creating"
    /\ IF \E k \in 1..Len(thread) : HasMarker(thread[k])
         THEN /\ thread' = [k \in 1..Len(thread) |->
                              IF HasMarker(thread[k])
                                THEN [thread[k] EXCEPT !.body = Some(inv[i].body)]
                                ELSE thread[k]]
              /\ UNCHANGED nextId
         ELSE /\ thread' = Append(thread, [id |-> nextId, body |-> Some(inv[i].body)])
              /\ nextId' = nextId + 1
    /\ inv' = [inv EXCEPT ![i].pc = "done"]
    /\ UNCHANGED <<thread0, begun>>

\* createComment resolved: a new comment ends the thread.
CommentCreated(i) ==
    /\ inv[i].pc = "creating"
    /\ thread' = Append(thread, [id |-> nextId, body |-> Some(inv[i].body)])
    /\ nextId' = nextId + 1
    /\ inv' = [inv EXCEPT ![i].pc = "done"]
    /\ UNCHANGED <<thread0, begun>>

\* listComments, updateComment or createComment rejected: the error propagates.
CommentCallFailed(i, err) ==
    /\ InFlight(i)
    /\ inv' = [inv EXCEPT ![i].pc = "failed", ![i].error = Some(err)]
    /\ UNCHANGED <<thread, thread0, nextId, begun>>

\* ------------------------------------------------- the thread's environment

Invocations == {1, 2}

\* Bodies of comments other people left: none at all, plain text, and text
\* that happens to quote the marker.
PlainBodies == {None, Some(<<"LGTM">>)}

QuotingBodies == {Some(<<"> ", MARKER, "\n", "what is this?">>)}

\* Threads as they may stand before the first invocation; ids ascend with age.
InitThreads ==
    UNION {{[k \in 1..n |-> [id |-> k, body |-> b[k]]] :
               b \in [1..n -> PlainBodies \cup QuotingBodies]} : n \in 0..MaxInitComments}

CommentContexts ==
    {[pull_request |-> None, ref |-> <<"refs/", "heads/", "main">>]} \cup
    {[pull_request |-> Some([number |-> n, base |-> b]),
      ref |-> <<"refs/", "pull/", "123", "/merge">>] :
        n \in {None, Some(0), Some(-1), Some(123)},
        b \in {None, Some([ref |-> Some(<<"main">>)])}}

\* What the reporter is handed: a 2xx body, or one with an id-less snapshot.
CommentResponses ==
    Responses \cup
    {[snapshot |-> Some([id |-> <<>>, name |-> <<"123">>]), sameAsBase |-> FALSE,
      message |-> None, error |-> None]}

Projects == {<<>>, <<"test-project">>}

OctokitErrors == {<<"API rate limit exceeded">>}

\* formatComment has not been called.
InitFormat ==
    /\ fmtArgs = None
    /\ fmtBody = None

InitThread ==
    /\ thread = <<>>
    /\ thread0 = <<>>
    /\ nextId = 1
    /\ inv = [i \in Invocations |-> IdleInvocation]
    /\ begun = 0

\* ------------------------------- createOrUpdateComment, one invocation at a time

\* The invocations that take turns on the thread: none starts while another runs.
Sequential == {1}

SeqBegin ==
    /\ \A j \in Invocations : ~InFlight(j)
    /\ UNCHANGED <<apiVars, runVars, fmtVars>>
    /\ \E i \in Sequential, r \in CommentResponses, p \in Projects : CommentBegin(i, r, p)

SeqListed == UNCHANGED <<apiVars, runVars, fmtVars>> /\ \E i \in Sequential : CommentListed(i)

SeqUpdated == UNCHANGED <<apiVars, runVars, fmtVars>> /\ \E i \in Sequential : CommentUpdated(i)

SeqCreated == UNCHANGED <<apiVars, runVars, fmtVars>> /\ \E i \in Sequential : CommentCreated(i)

SeqCallFailed ==
    /\ UNCHANGED <<apiVars, runVars, fmtVars>>
    /\ \E i \in Sequential, e \in OctokitErrors : CommentCallFailed(i, e)

InitComment ==
    /\ InitApi
    /\ runPc = "init"
    /\ inputs = [schemaFile |-> <<>>, project |-> <<>>, snapshotName |-> <<>>,
                 authToken |-> <<>>, permanent |-> <<>>, useOidc |-> <<>>,
                 oidcAudience |-> <<>>]
    /\ context \in CommentContexts
    /\ idTokenCalls = <<>>
    /\ idTokenResults = <<>>
    /\ oidcToken = None
    /\ sendCalls = <<>>
    /\ failedMsgs = <<>>
    /\ outputs = [response |-> None, snapshotUrl |-> None]
    /\ summaries = <<>>
    /\ completed = FALSE
    /\ thread \in InitThreads
    /\ thread0 = thread
    /\ nextId = Len(thread) + 1
    /\ inv = [i \in Invocations |-> IdleInvocation]
    /\ begun = 0
    /\ InitFormat

NextComment ==
    \/ SeqBegin
    \/ SeqListed
    \/ SeqUpdated
    \/ SeqCreated
    \/ SeqCallFailed

SpecComment == InitComment /\ [][NextComment]_vars

\* ------------------------------------------------------- run's environment

RefChunks == {"refs/", "heads/", "tags/", "main"}

\* Every ref string of at most MaxRefLen chunks.
Refs == UNION {[1..n -> RefChunks] : n \in 0..MaxRefLen}

\* A pull_request event: the payload carries the pull request, the ref is its merge ref.
PullRequestContexts ==
    {[pull_request |-> Some([number |-> Some(123), base |-> b]),
      ref |-> <<"refs/", "pull/", "123", "/merge">>] :
        b \in {None, Some([ref |-> Some(<<"main">>)])}}

\* A push (branch, tag or anything else): no pull request in the payload.
PushContexts == {[pull_request |-> None, ref |-> r] : r \in Refs}

RunContexts == PullRequestContexts \cup PushContexts

RunInputs ==
    [schemaFile : {<<>>, <<"./openapi.json">>},
     project : {<<>>, <<"test-project">>},
     snapshotName : {<<>>, <<"custom-name">>},
     authToken : {<<>>, <<"test-token">>},
     permanent : {<<>>, <<"true">>, <<"false">>, <<"TRUE">>, <<"yes">>},
     useOidc : {<<>>, <<"false">>, <<"true">>, <<"TRUE">>},
     oidcAudience : {<<>>, <<"https://custom-audience">>}]

\* What core.getIDToken may do: resolve with a token (possibly empty) or throw.
IdTokenAnswers ==
    {[kind |-> "token", token |-> <<"oidc-token">>, error |-> None],
     [kind |-> "token", token |-> <<>>, error |-> None],
     [kind |-> "reject", token |-> <<>>,
      error |-> [isError |-> TRUE, message |-> <<"Unable to get ACTIONS_ID_TOKEN_REQUEST_URL env variable">>]],
     [kind |-> "reject", token |-> <<>>,
      error |-> [isError |-> FALSE, message |-> <<"thrown string">>]]}

FileErrors ==
    {[isError |-> TRUE, message |-> <<"ENOENT: no such file or directory">>],
     [isError |-> TRUE, message |-> <<"Unexpected token in JSON">>]}

SummaryErrors ==
    {[isError |-> TRUE, message |-> <<"Unable to find environment variable for $GITHUB_STEP_SUMMARY">>]}

InitRun ==
    /\ runPc = "init"
    /\ inputs = [schemaFile |-> <<>>, project |-> <<>>, snapshotName |-> <<>>,
                 authToken |-> <<>>, permanent |-> <<>>, useOidc |-> <<>>,
                 oidcAudience |-> <<>>]
    /\ context = [pull_request |-> None, ref |-> <<>>]
    /\ idTokenCalls = <<>>
    /\ idTokenResults = <<>>
    /\ oidcToken = None
    /\ sendCalls = <<>>
    /\ failedMsgs = <<>>
    /\ outputs = [response |-> None, snapshotUrl |-> None]
    /\ summaries = <<>>
    /\ completed = FALSE

Start == runPc = "init" /\ UNCHANGED <<threadVars, fmtVars>> /\ \E inp \in RunInputs, ctx \in RunContexts : RunStart(inp, ctx)

OidcSettled == runPc = "awaitOidc" /\ UNCHANGED <<threadVars, fmtVars>> /\ \E r \in IdTokenAnswers : RunOidcSettled(r)

ReadOk == UNCHANGED <<threadVars, fmtVars>> /\ RunReadOk

ReadFail == runPc = "awaitRead" /\ UNCHANGED <<threadVars, fmtVars>> /\ \E e \in FileErrors : RunReadFail(e)

ApiOk == runPc = "awaitApi" /\ UNCHANGED <<threadVars, fmtVars>> /\ \E d \in Responses : RunApiOk(d)

ApiNotOk == runPc = "awaitApi" /\ UNCHANGED <<threadVars, fmtVars>> /\ \E f \in HttpFailures : RunApiNotOk(f[1], f[2])

ApiReject == runPc = "awaitApi" /\ UNCHANGED <<threadVars, fmtVars>> /\ \E e \in TransportErrors : RunApiReject(e)

SummaryOk == UNCHANGED <<threadVars, fmtVars>> /\ RunSummaryOk

SummaryFail == runPc = "awaitSummary" /\ UNCHANGED <<threadVars, fmtVars>> /\ \E e \in SummaryErrors : RunSummaryFail(e)

NextRun ==
    \/ Start
    \/ OidcSettled
    \/ ReadOk
    \/ ReadFail
    \/ ApiOk
    \/ ApiNotOk
    \/ ApiReject
    \/ SummaryOk
    \/ SummaryFail

InitRunSpec == InitApi /\ InitRun /\ InitThread /\ InitFormat

SpecRun == InitRunSpec /\ [][NextRun]_vars

\* ------------------------------------------- sendSchemaToApi called directly

DirectCall == apiPc = "idle" /\ UNCHANGED <<runVars, threadVars, fmtVars>> /\ \E p \in DirectArgs : ApiCall(p)

DirectFetchOk == apiPc = "fetching" /\ UNCHANGED <<runVars, threadVars, fmtVars>> /\ \E d \in Responses : ApiFetchOk(d)

DirectFetchNotOk == apiPc = "fetching" /\ UNCHANGED <<runVars, threadVars, fmtVars>> /\ \E f \in HttpFailures : ApiFetchNotOk(f[1], f[2])

DirectFetchReject == apiPc = "fetching" /\ UNCHANGED <<runVars, threadVars, fmtVars>> /\ \E e \in TransportErrors : ApiFetchReject(e)

NextApi ==
    \/ DirectCall
    \/ DirectFetchOk
    \/ DirectFetchNotOk
    \/ DirectFetchReject

InitApiSpec == InitApi /\ InitRun /\ InitThread /\ InitFormat

SpecApi == InitApiSpec /\ [][NextApi]_vars

\* ------------------------- createOrUpdateComment, two invocations interleaved

\* What the concurrent invocations report: a failure and a changed schema.
ConcurrentResponses ==
    {[snapshot |-> None, sameAsBase |-> FALSE, message |-> None, error |-> Some(<<"boom">>)],
     [snapshot |-> Some([id |-> <<"snap-1">>, name |-> <<"123">>]), sameAsBase |-> FALSE,
      message |-> None, error |-> None]}

ConcBegin ==
    /\ UNCHANGED <<apiVars, runVars, fmtVars>>
    /\ \E i \in Invocations, r \in ConcurrentResponses : CommentBegin(i, r, <<"test-project">>)

ConcListed == UNCHANGED <<apiVars, runVars, fmtVars>> /\ \E i \in Invocations : CommentListed(i)

ConcUpdated == UNCHANGED <<apiVars, runVars, fmtVars>> /\ \E i \in Invocations : CommentUpdated(i)

ConcCreated == UNCHANGED <<apiVars, runVars, fmtVars>> /\ \E i \in Invocations : CommentCreated(i)

ConcCallFailed ==
    /\ UNCHANGED <<apiVars, runVars, fmtVars>>
    /\ \E i \in Invocations, e \in OctokitErrors : CommentCallFailed(i, e)

\* Both workflow runs belong to a pull request whose number can be used.
InitConcurrent == InitComment /\ ~NoPrNumber(PrNumberOf(context))

NextConcurrent ==
    \/ ConcBegin
    \/ ConcListed
    \/ ConcUpdated
    \/ ConcCreated
    \/ ConcCallFailed

SpecConcurrent == InitConcurrent /\ [][NextConcurrent]_vars

\* ------------------------------------------------- formatComment on its own

\* The github.context formatComment may read: it is called only past the
\* check of the pull-request number; the base and its ref may be missing.
FormatContexts ==
    {[pull_request |-> Some([number |-> Some(n), base |-> b]),
      ref |-> <<"refs/", "pull/">> \o Decimal(n) \o <<"/merge">>] :
        n \in {7, 123},
        b \in {None, Some([ref |-> None]), Some([ref |-> Some(<<>>)]),
               Some([ref |-> Some(<<"main">>)]), Some([ref |-> Some(<<"release/", "v2">>)])}}

\* The arguments and the github.context formatComment may be called with.
FormatArgs == [response : CommentResponses, project : Projects, context : FormatContexts]

\* formatComment returns the body it rendered.
FormatCall ==
    /\ IsSome(fmtArgs)
    /\ fmtBody = None
    /\ fmtBody' = Some(FormatComment(Val(fmtArgs).response, Val(fmtArgs).project,
                                     Val(fmtArgs).context))
    /\ UNCHANGED <<apiVars, runVars, threadVars, fmtArgs>>

InitFormatSpec ==
    /\ InitApi
    /\ InitRun
    /\ InitThread
    /\ fmtArgs \in {Some(a) : a \in FormatArgs}
    /\ fmtBody = None

NextFormat == FormatCall

SpecFormat == InitFormatSpec /\ [][NextFormat]_vars

\* ------------------------------------------------------------------ claims

\* How many comments of a thread carry the marker.
MarkerCount(t) ==
    Cardinality({k \in 1..Len(t) :
                    IsSome(t[k].body) /\ Includes(Val(t[k].body), <<MARKER>>)})

\* C1: from a thread without any marked comment, after any sequence of
\* invocations that run one after the other, at most one comment of the
\* thread carries the marker.
C1_AtMostOneMarked == MarkerCount(thread0) = 0 => MarkerCount(thread) <= 1

\* The listed comments that carry the marker, by position.
MarkedIn(comments) ==
    {k \in 1..Len(comments) :
        IsSome(comments[k].body) /\ Includes(Val(comments[k].body), <<MARKER>>)}

CallsOf(i, op) == {k \in 1..Len(inv[i].calls) : inv[i].calls[k].op = op}

\* C2: once listComments has answered, the invocation issues exactly one
\* updateComment, on the first listed comment with the marker, and no
\* createComment; or, when no listed comment has the marker, exactly one
\* createComment on the pull request's number and no updateComment.
C2_UpsertByFirstMarked ==
    \A i \in Invocations :
        IsSome(inv[i].listed) =>
            LET comments == Val(inv[i].listed)
                hits == MarkedIn(comments)
            IN IF hits # {}
                 THEN /\ Cardinality(CallsOf(i, "updateComment")) = 1
                      /\ CallsOf(i, "createComment") = {}
                      /\ \A k \in CallsOf(i, "updateComment"), h \in hits :
                            (\A j \in hits : h <= j) =>
                                inv[i].calls[k].comment_id = comments[h].id
                 ELSE /\ Cardinality(CallsOf(i, "createComment")) = 1
                      /\ CallsOf(i, "updateComment") = {}
                      /\ \A k \in CallsOf(i, "createComment") :
                            inv[i].calls[k].issue_number
                                = Val(Val(context.pull_request).number)

\* An invocation that completed an update after two marked comments were listed.
C2_Witness ==
    \E i \in Invocations :
        /\ inv[i].pc = "done"
        /\ IsSome(inv[i].listed)
        /\ Cardinality(MarkedIn(Val(inv[i].listed))) >= 2
        /\ CallsOf(i, "updateComment") # {}

RequiredGiven == Len(inputs.schemaFile) > 0 /\ Len(inputs.project) > 0

OidcSelected == inputs.useOidc \in {<<"true">>, <<"TRUE">>}

\* C3: the snapshot name a run submits is the snapshot-name input when it is
\* not empty; else the decimal pull-request number in a pull request; else
\* the ref without its leading refs/heads/; else the ref without its leading
\* refs/tags/; else the ref as it is.
C3_SnapshotNameRule ==
    Len(sendCalls) > 0 =>
        LET name == Val(sendCalls[1].snapshotName)
            ref == context.ref
            pr == context.pull_request
        IN /\ Len(fetchCalls) = 1
           /\ fetchCalls[1].body.snapshotName = name
           /\ name = (IF inputs.snapshotName # <<>> THEN inputs.snapshotName
                      ELSE IF IsSome(pr) THEN Decimal(Val(Val(pr).number))
                      ELSE IF Len(ref) >= 2 /\ ref[1] = "refs/" /\ ref[2] = "heads/"
                        THEN SubSeq(ref, 3, Len(ref))
                      ELSE IF Len(ref) >= 2 /\ ref[1] = "refs/" /\ ref[2] = "tags/"
                        THEN SubSeq(ref, 3, Len(ref))
                      ELSE ref)
           /\ (inputs.snapshotName = <<>> /\ IsSome(pr) /\ Val(pr).number = Some(123))
                 => name = <<"1", "2", "3">>

\* A tag push without a snapshot-name input was submitted.
C3_Witness ==
    /\ Len(sendCalls) > 0
    /\ inputs.snapshotName = <<>>
    /\ ~IsSome(context.pull_request)
    /\ context.ref = <<"refs/", "tags/", "main">>

\* C4: without a permanent input, the permanent value a run submits is false
\* in a pull request and true otherwise; with the input given as true or
\* false, it is that value in every context.
C4_PermanentRule ==
    Len(sendCalls) > 0 =>
        LET perm == Val(sendCalls[1].permanent)
        IN /\ inputs.permanent = <<>> => (perm <=> ~IsSome(context.pull_request))
           /\ inputs.permanent \in {<<"true">>, <<"TRUE">>} => perm
           /\ inputs.permanent = <<"false">> => ~perm

\* A pull-request run that was told permanent: true was submitted.
C4_Witness ==
    /\ Len(sendCalls) > 0
    /\ IsSome(context.pull_request)
    /\ inputs.permanent = <<"true">>

IdTokenThrew ==
    /\ Len(idTokenResults) > 0
    /\ idTokenResults[1].kind = "reject" \/ Len(idTokenResults[1].token) = 0

\* C5: in OIDC mode, when the identity token cannot be obtained, the run is
\* failed with a message that names the id-token: write permission, and
\* nothing is submitted, whether or not an auth-token is configured.
C5_OidcFailureIsFatal ==
    (OidcSelected /\ IdTokenThrew) =>
        /\ runPc = "done"
        /\ Len(failedMsgs) = 1
        /\ Includes(failedMsgs[1], <<"id-token: write">>)
        /\ sendCalls = <<>>
        /\ fetchCalls = <<>>
        /\ ~completed

\* The identity token failed in a run that also had an auth-token.
C5_Witness ==
    /\ OidcSelected
    /\ IdTokenThrew
    /\ inputs.authToken # <<>>
    /\ runPc = "done"

C7_ExternalPrSkipsGracefully ==
    (runPc = "done" /\ RequiredGiven /\ ~OidcSelected /\ inputs.authToken = <<>>
       /\ IsSome(context.pull_request)) =>
        /\ failedMsgs = <<>>
        /\ MarkerCount(thread) > 0

NoIdentityToken(p) == p.oidcToken = None \/ p.oidcToken = Some(<<>>)

NoStaticToken(p) == p.authToken = None \/ p.authToken = Some(<<>>)

AllPopulated(fc) ==
    /\ IsSome(fc)
    /\ Val(fc).targetRepository \notin {None, Some(<<>>)}
    /\ Val(fc).targetPullRequest \notin {None, Some(0)}
    /\ Val(fc).commitSha \notin {None, Some(<<>>)}

\* C8: a call without an identity token, a static token and a complete fork
\* context is rejected with 'Either authToken or oidcToken must be provided'
\* and issues no request.
C8_NoRequestWithoutCredential ==
    (IsSome(apiArgs) /\ NoIdentityToken(Val(apiArgs)) /\ NoStaticToken(Val(apiArgs))
       /\ ~AllPopulated(Val(apiArgs).forkContext)) =>
        /\ fetchCalls = <<>>
        /\ apiPc = "threw"
        /\ apiOutcome.error
             = Some([isError |-> TRUE,
                     message |-> <<"Either authToken or oidcToken must be provided">>])

ForkRequestShape(p, req, bodyKeys) ==
    /\ req.url = p.apiUrl \o <<"-fork">>
    /\ req.method = "POST"
    /\ DOMAIN req.headers = {"ContentType", "Authorization"}
    /\ req.headers.Authorization = <<"Fork ">> \o Val(Val(p.forkContext).targetRepository)
    /\ DOMAIN req.body = bodyKeys
    /\ req.body.schema = p.schema
    /\ req.body.project = p.project
    /\ req.body.forkContext = Val(p.forkContext)
    /\ "snapshotName" \in bodyKeys => req.body.snapshotName = Val(p.snapshotName)

\* C9 as stated: without an identity token and with a fully populated fork
\* context, the one POST goes to apiUrl-fork with Authorization: Fork
\* <targetRepository>, and its body holds schema, project, snapshotName and
\* forkContext.
C9_ForkRequestAsStated ==
    (IsSome(apiArgs) /\ NoIdentityToken(Val(apiArgs))
       /\ AllPopulated(Val(apiArgs).forkContext)) =>
        /\ Len(fetchCalls) = 1
        /\ ForkRequestShape(Val(apiArgs), fetchCalls[1],
                            {"schema", "project", "snapshotName", "forkContext"})

\* C9 amended: the same request, whose body holds schema, project and
\* forkContext, and snapshotName exactly when the caller passed one.
C9_ForkRequest ==
    (IsSome(apiArgs) /\ NoIdentityToken(Val(apiArgs))
       /\ AllPopulated(Val(apiArgs).forkContext)) =>
        /\ Len(fetchCalls) = 1
        /\ ForkRequestShape(Val(apiArgs), fetchCalls[1],
                            {"schema", "project", "forkContext"}
                              \cup (IF IsSome(Val(apiArgs).snapshotName)
                                      THEN {"snapshotName"} ELSE {}))

\* A fork-mode call that passed no snapshot name has issued its request.
C9_Witness ==
    /\ IsSome(apiArgs)
    /\ NoIdentityToken(Val(apiArgs))
    /\ AllPopulated(Val(apiArgs).forkContext)
    /\ Val(apiArgs).snapshotName = None
    /\ Len(fetchCalls) = 1

\* C10: a fork context with a field missing or empty changes nothing: the
\* request (url, headers, body) is the one made without any fork context;
\* a fully populated one, absent an identity token, does change it.
C10_PartialForkContextIsAbsent ==
    IsSome(apiArgs) =>
        LET p == Val(apiArgs)
            bare == BuildRequest([p EXCEPT !.forkContext = None])
        IN /\ Len(fetchCalls) = 1
           /\ (IsSome(p.forkContext) /\ ~AllPopulated(p.forkContext)) =>
                 /\ fetchCalls[1] = bare
                 /\ fetchCalls[1].url = p.apiUrl
                 /\ "forkContext" \notin DOMAIN fetchCalls[1].body
                 /\ NoIdentityToken(p) => "Authorization" \notin DOMAIN fetchCalls[1].headers
           /\ (AllPopulated(p.forkContext) /\ NoIdentityToken(p)) => fetchCalls[1] # bare

\* A call whose fork context names only the repository has issued its request.
C10_Witness ==
    /\ IsSome(apiArgs)
    /\ Val(apiArgs).forkContext
         = Some([targetRepository |-> Some(<<"owner/repo">>),
                 targetPullRequest |-> None, commitSha |-> None])
    /\ NoIdentityToken(Val(apiArgs))
    /\ Len(fetchCalls) = 1

\* C11: when fetch resolves with a non-success status s and text b,
\* sendSchemaToApi rejects with an Error whose message contains the decimal
\* digits of s and the text b, and resolves with no data.
C11_NonSuccessRejects ==
    [][\A f \in HttpFailures :
          ApiFetchNotOk(f[1], f[2]) =>
              /\ apiPc' = "threw"
              /\ apiOutcome'.kind = "error"
              /\ apiOutcome'.data = None
              /\ IsSome(apiOutcome'.error)
              /\ Val(apiOutcome'.error).isError
              /\ Includes(Val(apiOutcome'.error).message, Decimal(f[1]))
              /\ Includes(Val(apiOutcome'.error).message, f[2])]_vars

\* A call was rejected after a 401 whose text was Unauthorized.
C11_Witness ==
    /\ apiPc = "threw"
    /\ IsSome(apiOutcome.error)
    /\ StartsWith(Val(apiOutcome.error).message, <<"API request failed with status ">>)
    /\ Includes(Val(apiOutcome.error).message, <<"4", "0", "1">>)
    /\ Includes(Val(apiOutcome.error).message, <<"Unauthorized">>)

\* C12: a run issues at most one fetch and calls sendSchemaToApi at most
\* once, whatever was answered; after a failed request the run has ended
\* with that one request.
C12_AtMostOneRequest ==
    /\ Len(fetchCalls) <= 1
    /\ Len(sendCalls) <= 1
    /\ apiPc = "threw" => (runPc = "done" /\ Len(fetchCalls) = 1)

\* A run whose request met a network error has ended.
C12_Witness ==
    /\ runPc = "done"
    /\ apiPc = "threw"
    /\ IsSome(apiOutcome.error)
    /\ Val(apiOutcome.error).message = <<"Network error">>
    /\ Len(fetchCalls) = 1

CompareMark == <<":arrows_counterclockwise: **Compare URL:** ">>

SuccessLine == <<":white_check_mark: Successfully created snapshot!">>

NoChangesMark == <<":information_source: No changes detected compared to ">>

\* The pull request's base ref, or the literal the report falls back to.
BaseNameOf(ctx) ==
    LET pr == ctx.pull_request
    IN IF IsSome(pr) /\ IsSome(Val(pr).base) /\ TruthyStr(Val(Val(pr).base).ref)
         THEN Val(Val(Val(pr).base).ref)
         ELSE <<"base branch">>

\* C13: the body rendered for a response with a snapshot and sameAsBase
\* true has no Compare URL line and no success line, and has the line
\* 'No changes detected compared to <base>' and the base-snapshot link,
\* <base> being the base ref, or 'base branch' when there is none.
C13_UnchangedReport ==
    (IsSome(fmtBody) /\ IsSome(Val(fmtArgs).response.snapshot)
       /\ Val(fmtArgs).response.sameAsBase) =>
        LET body == Val(fmtBody)
            base == BaseNameOf(Val(fmtArgs).context)
        IN /\ ~Includes(body, CompareMark)
           /\ ~Includes(body, SuccessLine)
           /\ Includes(body, <<"\n">> \o NoChangesMark \o base \o <<"\n">>)
           /\ Includes(body, <<"\n", ":link: **Base Branch Snapshot:** ",
                               "https://explore-openapi.dev/view?project=">>
                               \o Val(fmtArgs).project \o <<"&snapshot=">> \o base)

\* An unchanged-schema report was rendered for a pull request without a base ref.
C13_Witness ==
    /\ IsSome(fmtBody)
    /\ IsSome(Val(fmtArgs).response.snapshot)
    /\ Val(fmtArgs).response.sameAsBase
    /\ IsSome(Val(fmtArgs).context.pull_request)
    /\ BaseRefOf(Val(fmtArgs).context) = None
    /\ Includes(Val(fmtBody), NoChangesMark \o <<"base branch">>)

ReportHead == <<MARKER, "\n", "## :camera: OpenAPI Snapshot", "\n">>

\* The text after the head of a changed-schema report: the success line,
\* then, each after a blank line, the compare link, the view link and the note.
ChangedReport(r, p, ctx, withCompare, withView) ==
    ReportHead \o <<"\n">> \o SuccessLine
    \o (IF withCompare
          THEN <<"\n", "\n">> \o CompareMark
               \o <<"https://explore-openapi.dev/compare?project=">> \o p
               \o <<"&baseSnapshot=">> \o BaseNameOf(ctx)
               \o <<"&featureSnapshot=">> \o Decimal(Val(Val(ctx.pull_request).number))
          ELSE <<>>)
    \o (IF withView
          THEN <<"\n", "\n", ":link: **Snapshot URL:** ",
                 "https://explore-openapi.dev/view?project=">> \o p
               \o <<"&snapshot=">> \o Val(r.snapshot).name
          ELSE <<>>)
    \o (IF IsSome(r.message) /\ Val(r.message) # <<>>
          THEN <<"\n", "\n", ":memo: ">> \o Val(r.message)
          ELSE <<>>)

BaseKnown(ctx) == BaseNameOf(ctx) # <<"base branch">>

\* A response with a snapshot and sameAsBase false was rendered.
ChangedRendered ==
    /\ IsSome(fmtBody)
    /\ IsSome(Val(fmtArgs).response.snapshot)
    /\ ~Val(fmtArgs).response.sameAsBase

\* The pull-request number is known.
NumberKnown(ctx) ==
    /\ IsSome(ctx.pull_request)
    /\ IsSome(Val(ctx.pull_request).number)
    /\ Val(Val(ctx.pull_request).number) # 0

\* C14 as stated: the body rendered for a response with a snapshot and
\* sameAsBase false is the head, the success line, the compare link exactly
\* when the pull-request number and the base ref are known, the view link,
\* and the note exactly when there is a message.
C14_ChangedReportAsStated ==
    ChangedRendered =>
        LET a == Val(fmtArgs)
        IN Val(fmtBody) =
              ChangedReport(a.response, a.project, a.context,
                            NumberKnown(a.context) /\ BaseKnown(a.context), TRUE)

\* C14 amended: the same, where the compare link is there exactly when the
\* project is not empty and the pull-request number and the base ref are
\* known, and the view link exactly when the project and the snapshot's id
\* are not empty; for pull request 123 on main the compare link names main
\* and 123.
C14_ChangedReport ==
    ChangedRendered =>
        LET a == Val(fmtArgs)
        IN /\ Val(fmtBody) =
                 ChangedReport(a.response, a.project, a.context,
                               a.project # <<>> /\ NumberKnown(a.context)
                                 /\ BaseKnown(a.context),
                               a.project # <<>> /\ Val(a.response.snapshot).id # <<>>)
           /\ (a.project # <<>> /\ BaseNameOf(a.context) = <<"main">>
                 /\ NumberKnown(a.context)
                 /\ Val(a.context.pull_request).number = Some(123)) =>
                 Includes(Val(fmtBody),
                          <<"&baseSnapshot=", "main", "&featureSnapshot=", "1", "2", "3">>)

\* A changed-schema report with compare link, view link and note was rendered.
C14_Witness ==
    /\ ChangedRendered
    /\ Includes(Val(fmtBody), SuccessLine)
    /\ Includes(Val(fmtBody), CompareMark)
    /\ Includes(Val(fmtBody), <<":link: **Snapshot URL:** ">>)
    /\ Includes(Val(fmtBody), <<":memo: ", "note">>)

FailedLine == <<":x: Failed to create snapshot">>

WrittenBodies(i) ==
    {inv[i].calls[k].body : k \in CallsOf(i, "createComment") \cup CallsOf(i, "updateComment")}

\* C16: every body handed to createComment or updateComment, and every
\* comment of the thread that an invocation wrote, begins with the marker
\* line, the heading line and a blank line.
C16_BodyBeginsWithMarker ==
    /\ \A i \in Invocations : \A b \in WrittenBodies(i) :
          StartsWith(b, ReportHead \o <<"\n">>)
    /\ \A k \in 1..Len(thread) :
          (k > Len(thread0) \/ thread[k] # thread0[k]) =>
              /\ IsSome(thread[k].body)
              /\ StartsWith(Val(thread[k].body), ReportHead \o <<"\n">>)

\* Both a created and an updated comment stand on the thread.
C16_Witness ==
    /\ Len(thread) > Len(thread0)
    /\ \E i \in Invocations :
          /\ inv[i].pc = "done"
          /\ CallsOf(i, "updateComment") # {}
          /\ \E k \in 1..Len(thread) : thread[k].body = Some(inv[i].body)

\* The context carries no pull-request number that can be used.
NoUsableNumber(ctx) ==
    \/ ~IsSome(ctx.pull_request)
    \/ ~IsSome(Val(ctx.pull_request).number)
    \/ Val(Val(ctx.pull_request).number) <= 0

\* C17: without a usable pull-request number, an invocation ends with
\* 'No pull request number found', has issued no octokit call, and the
\* thread is as it was.
C17_NoNumberNoCalls ==
    NoUsableNumber(context) =>
        /\ thread = thread0
        /\ \A i \in Invocations :
              inv[i].pc # "idle" =>
                  /\ inv[i].pc = "failed"
                  /\ inv[i].error = Some(<<"No pull request number found">>)
                  /\ inv[i].calls = <<>>

\* An invocation was refused for a negative pull-request number.
C17_Witness ==
    /\ IsSome(context.pull_request)
    /\ Val(context.pull_request).number = Some(-1)
    /\ \E i \in Invocations : inv[i].pc = "failed"

\* The submission of a pull-request run has failed and the run has ended.
SubmissionFailedInPr ==
    runPc = "done" /\ apiPc = "threw" /\ IsSome(context.pull_request)

\* C18: after a failed submission in a pull request, the run is marked
\* failed with the submission's error, and exactly one report on the
\* thread was attempted.
C18_FailureReportAttempted ==
    SubmissionFailedInPr =>
        /\ Len(failedMsgs) = 1
        /\ failedMsgs[1] = <<"Action failed: ">>
                             \o ErrorMessage(Val(apiOutcome.error), <<"Unknown error occurred">>)
        /\ begun = 1

\* C19: when the submission succeeded and the report that follows fails,
\* no 'Snapshot creation failed' error is logged and no failure comment is
\* posted.
C19_SuccessNotMasked ==
    (runPc = "done" /\ apiPc = "returned" /\ ~completed) =>
        /\ \A k \in 1..Len(coreErrors) :
              ~StartsWith(coreErrors[k], <<"Snapshot creation failed: ">>)
        /\ \A k \in 1..Len(thread) :
              ~(IsSome(thread[k].body) /\ Includes(Val(thread[k].body), FailedLine))

\* C20: in legacy mode with an auth-token, the POST a run issues carries
\* Authorization: Bearer <auth-token>.
C20_LegacyBearer ==
    (Len(fetchCalls) > 0 /\ ~OidcSelected /\ inputs.authToken # <<>>) =>
        /\ "Authorization" \in DOMAIN fetchCalls[1].headers
        /\ fetchCalls[1].headers.Authorization = <<"Bearer ">> \o inputs.authToken

\* C21: the body of the POST a run issues holds permanent, equal to the
\* flag the run derived, and holds baseBranchName, equal to the pull
\* request's base ref, exactly when there is such a ref.
C21_BodyCarriesResolved ==
    Len(fetchCalls) > 0 =>
        LET body == fetchCalls[1].body
            base == BaseRefOf(context)
        IN /\ "permanent" \in DOMAIN body
           /\ body.permanent = PermanentOf(inputs, context)
           /\ IsSome(base) <=> "baseBranchName" \in DOMAIN body
           /\ IsSome(base) => body.baseBranchName = Val(base)

\* The run failed on a schema file that could not be read or parsed.
FileFailed ==
    \E e \in FileErrors :
        failedMsgs # <<>> /\ failedMsgs[1] = <<"Action failed: ">> \o e.message

\* C22: a run without schema-file or project, or whose schema file cannot
\* be read or parsed, ends marked failed once, and has called neither
\* sendSchemaToApi nor fetch.
C22_ConfigErrorNoSubmission ==
    ((runPc # "init" /\ ~RequiredGiven) \/ FileFailed) =>
        /\ runPc = "done"
        /\ Len(failedMsgs) = 1
        /\ sendCalls = <<>>
        /\ fetchCalls = <<>>
        /\ ~completed

\* A run with an identity token ended on a schema file that is not JSON.
C22_Witness ==
    /\ runPc = "done"
    /\ IsSome(oidcToken)
    /\ failedMsgs = <<<<"Action failed: ", "Unexpected token in JSON">>>>

\* C23: without a snapshot-name input, the snapshot name a run submits is
\* not the empty string, whatever the ref and the payload.
C23_NameNeverEmpty ==
    (Len(sendCalls) > 0 /\ inputs.snapshotName = <<>>) =>
        Val(sendCalls[1].snapshotName) # <<>>

\* C24: once the submission has succeeded, the output response is the whole
\* response and snapshot-url is set exactly when the response has a
\* snapshot id and the project is not empty, from before the report is
\* attempted and also after it failed; in every other state neither output
\* is set.
C24_OutputsPublished ==
    IF apiPc = "returned"
      THEN LET response == Val(apiOutcome.data)
               hasId == IsSome(response.snapshot) /\ Val(response.snapshot).id # <<>>
           IN /\ outputs.response = Some(response)
              /\ IsSome(outputs.snapshotUrl) <=> (hasId /\ inputs.project # <<>>)
              /\ IsSome(outputs.snapshotUrl) =>
                    Val(outputs.snapshotUrl)
                      = <<"https://explore-openapi.dev/view?project=">> \o inputs.project
                          \o <<"&snapshot=">> \o Val(response.snapshot).name
              /\ runPc = "awaitSummary" => summaries = <<>>
      ELSE outputs = [response |-> None, snapshotUrl |-> None]

\* The summary write failed after a submission that returned a snapshot.
C24_Witness ==
    /\ runPc = "done"
    /\ apiPc = "returned"
    /\ ~completed
    /\ failedMsgs # <<>>
    /\ IsSome(outputs.snapshotUrl)

\* C25: a call with an identity token and a fully populated fork context
\* posts to the unmodified apiUrl with Authorization: Bearer <oidcToken>,
\* and its body has no forkContext.
C25_TokenBeforeFork ==
    (IsSome(apiArgs) /\ TruthyStr(Val(apiArgs).oidcToken)
       /\ AllPopulated(Val(apiArgs).forkContext)) =>
        /\ Len(fetchCalls) = 1
        /\ fetchCalls[1].url = Val(apiArgs).apiUrl
        /\ fetchCalls[1].headers.Authorization = <<"Bearer ">> \o Val(Val(apiArgs).oidcToken)
        /\ "forkContext" \notin DOMAIN fetchCalls[1].body

\* A call with both an identity token and a complete fork context was made.
C25_Witness ==
    /\ IsSome(apiArgs)
    /\ Val(apiArgs).oidcToken = Some(<<"oidc-token">>)
    /\ AllPopulated(Val(apiArgs).forkContext)
    /\ Len(fetchCalls) = 1

\* C26: when fetch rejects with err, sendSchemaToApi rejects with err
\* itself, whose message does not start with 'API request failed with
\* status'; an Error, from fetch or from a non-2xx answer, is logged once
\* before it is rethrown.
C26_TransportErrorAsIs ==
    [][/\ \A e \in TransportErrors :
             ApiFetchReject(e) =>
                 /\ apiPc' = "threw"
                 /\ apiOutcome'.error = Some(e)
                 /\ apiOutcome'.data = None
                 /\ ~StartsWith(e.message, <<"API request failed with status ">>)
                 /\ e.isError =>
                       coreErrors' = Append(coreErrors,
                                            <<"Failed to send schema to API: ">> \o e.message)
       /\ \A f \in HttpFailures :
             ApiFetchNotOk(f[1], f[2]) =>
                 /\ StartsWith(Val(apiOutcome'.error).message,
                               <<"API request failed with status ">>)
                 /\ coreErrors' = Append(coreErrors,
                                         <<"Failed to send schema to API: ">>
                                           \o Val(apiOutcome'.error).message)]_vars

\* A call was rejected with the network error fetch rejected with.
C26_Witness ==
    /\ apiPc = "threw"
    /\ apiOutcome.error = Some([isError |-> TRUE, message |-> <<"Network error">>])
    /\ coreErrors = <<<<"Failed to send schema to API: ", "Network error">>>>

\* The invocations that listed a page without a marked comment and completed
\* a createComment.
Racers ==
    {i \in Invocations :
        /\ inv[i].pc = "done"
        /\ IsSome(inv[i].listed)
        /\ MarkedIn(Val(inv[i].listed)) = {}
        /\ CallsOf(i, "createComment") # {}}

\* C27: list and upsert are separate steps: when two interleaved invocations
\* have both listed the thread before either created its comment, each
\* creates one, and the thread ends with two more marked comments than it had.
C27_ConcurrentDuplicates ==
    Cardinality(Racers) = 2 => MarkerCount(thread) >= MarkerCount(thread0) + 2

\* Two interleaved invocations left two marked comments on a thread that was empty.
C27_Witness ==
    /\ thread0 = <<>>
    /\ Cardinality(Racers) = 2
    /\ Len(thread) = 2
    /\ MarkerCount(thread) = 2

\* C28: a run that has ended was either marked failed exactly once, with a
\* message that is not empty, and did not log completion, or logged
\* completion and was never marked failed; once it is marked failed the
\* run has ended.
C28_OneTerminalOutcome ==
    /\ Len(failedMsgs) <= 1
    /\ failedMsgs # <<>> => (runPc = "done" /\ ~completed /\ failedMsgs[1] # <<>>)
    /\ completed => (runPc = "done" /\ failedMsgs = <<>>)
    /\ runPc = "done" => (completed \/ Len(failedMsgs) = 1)

\* A pull-request run completed after writing its summary.
C28_Witness ==
    /\ runPc = "done"
    /\ completed
    /\ IsSome(context.pull_request)
    /\ Len(summaries) = 1

\* The first comment of a thread that carries the marker.
FirstMarked(t) == CHOOSE k \in MarkedIn(t) : \A j \in MarkedIn(t) : k <= j

\* C29: an invocation that completes on a thread with k >= 1 marked
\* comments leaves k marked comments: the thread keeps its length, and only
\* the first marked comment may differ.
C29_DuplicatesPersist ==
    [][\A i \in Invocations :
          (inv[i].pc \in {"updating", "creating"} /\ inv'[i].pc = "done"
             /\ MarkerCount(thread) >= 1) =>
              /\ Len(thread') = Len(thread)
              /\ MarkerCount(thread') = MarkerCount(thread)
              /\ \A k \in 1..Len(thread) :
                    thread'[k] # thread[k] => k = FirstMarked(thread)]_vars

\* C30: a step changes at most one comment of the thread, by appending one
\* or by rewriting the body of one that carries the marker, and only as an
\* invocation completes; a step in which an invocation fails leaves the
\* thread as it is and hands the error to the caller.
C30_FrameEffect ==
    [][/\ Len(thread') >= Len(thread)
       /\ LET changed == {k \in 1..Len(thread) : thread'[k] # thread[k]}
          IN /\ Cardinality(changed) + (Len(thread') - Len(thread)) <= 1
             /\ \A k \in changed : HasMarker(thread[k]) /\ thread'[k].id = thread[k].id
       /\ thread' # thread =>
             \E i \in Invocations :
                 inv[i].pc \in {"updating", "creating"} /\ inv'[i].pc = "done"
       /\ \A i \in Invocations :
             (inv'[i].pc = "failed" /\ inv[i].pc # "failed") =>
                 (thread' = thread /\ IsSome(inv'[i].error))]_vars

\* An updateComment call failed on a thread that also holds unmarked comments.
C30_Witness ==
    \E i \in Invocations :
        /\ inv[i].pc = "failed"
        /\ inv[i].error = Some(<<"API rate limit exceeded">>)
        /\ CallsOf(i, "updateComment") # {}
        /\ thread = thread0
        /\ \E k \in 1..Len(thread) : ~HasMarker(thread[k])

====
